---- MODULE Spec2Model ----
(***************************************************************************)
(* A model of scripts/tick_my_feedstocks.py: the patch engine              *)
(* (basic_patch), the recipe model (Feedstock_Meta_Yaml), the checksum     *)
(* resolver (pypi_sha) and the update orchestrator (tick_feedstocks).      *)
(*                                                                         *)
(* Python strings are sequences of one-character strings.  None is a       *)
(* value of its own.                                                       *)
(***************************************************************************)
EXTENDS Integers, Sequences, FiniteSets, TLC

(***************************************************************************)
(* Bounds                                                                  *)
(***************************************************************************)
MaxTextLen == 3
MaxLines == 3

(***************************************************************************)
(* Python values                                                           *)
(***************************************************************************)
None == <<"None">>

Alphabet == {"1", "2", "a", "b"}

RECURSIVE StringsUpTo(_)
StringsUpTo(n) ==
    IF n = 0 THEN {<<>>}
    ELSE LET shorter == StringsUpTo(n - 1)
         IN  shorter \cup {Append(s, c) : s \in {t \in shorter : Len(t) = n - 1}, c \in Alphabet}

\* s[i..] starts with pat (i is 1-based)
MatchesAt(s, pat, i) ==
    /\ i + Len(pat) - 1 <= Len(s)
    /\ \A k \in 1..Len(pat) : s[i + k - 1] = pat[k]

\* str.find: lowest 0-based index of pat in s, -1 when absent
Find(s, pat) ==
    LET hits == {i \in 1..(Len(s) + 1) : MatchesAt(s, pat, i)}
    IN  IF hits = {} THEN -1
        ELSE (CHOOSE i \in hits : \A j \in hits : i <= j) - 1

\* str.count: number of non-overlapping occurrences, scanning left to right
RECURSIVE CountFrom(_, _, _)
CountFrom(s, pat, i) ==
    IF i > Len(s) - Len(pat) + 1 THEN 0
    ELSE IF MatchesAt(s, pat, i)
         THEN 1 + CountFrom(s, pat, i + (IF Len(pat) = 0 THEN 1 ELSE Len(pat)))
         ELSE CountFrom(s, pat, i + 1)

Count(s, pat) == CountFrom(s, pat, 1)

(***************************************************************************)
(* base64.b64encode(text.encode('utf-8')).decode('utf-8')                  *)
(***************************************************************************)
Ord(c) ==
    CASE c = "1" -> 49
      [] c = "2" -> 50
      [] c = "a" -> 97
      [] c = "b" -> 98

B64Alphabet ==
    << "A", "B", "C", "D", "E", "F", "G", "H", "I", "J", "K", "L", "M",
       "N", "O", "P", "Q", "R", "S", "T", "U", "V", "W", "X", "Y", "Z",
       "a", "b", "c", "d", "e", "f", "g", "h", "i", "j", "k", "l", "m",
       "n", "o", "p", "q", "r", "s", "t", "u", "v", "w", "x", "y", "z",
       "0", "1", "2", "3", "4", "5", "6", "7", "8", "9", "+", "/" >>

B64Char(n) == B64Alphabet[n + 1]

B64Index(c) == (CHOOSE i \in 1..64 : B64Alphabet[i] = c) - 1

RECURSIVE b64encodeFrom(_, _)
b64encodeFrom(s, i) ==
    LET left == Len(s) - i + 1
        b1 == Ord(s[i])
        b2 == IF left >= 2 THEN Ord(s[i + 1]) ELSE 0
        b3 == IF left >= 3 THEN Ord(s[i + 2]) ELSE 0
        n  == b1 * 65536 + b2 * 256 + b3
    IN  IF left <= 0 THEN <<>>
        ELSE << B64Char(n \div 262144),
                B64Char((n \div 4096) % 64),
                IF left >= 2 THEN B64Char((n \div 64) % 64) ELSE "=",
                IF left >= 3 THEN B64Char(n % 64) ELSE "=" >>
             \o b64encodeFrom(s, i + 3)

b64encode(s) == b64encodeFrom(s, 1)

Chr(n) == CHOOSE c \in Alphabet : Ord(c) = n

\* the inverse transport decoding, used to read a payload back
RECURSIVE b64decodeFrom(_, _)
b64decodeFrom(e, i) ==
    IF i > Len(e) THEN <<>>
    ELSE LET pad3 == e[i + 2] = "="
             pad4 == e[i + 3] = "="
             n == B64Index(e[i]) * 262144 + B64Index(e[i + 1]) * 4096
                  + (IF pad3 THEN 0 ELSE B64Index(e[i + 2]) * 64)
                  + (IF pad4 THEN 0 ELSE B64Index(e[i + 3]))
         IN  <<Chr(n \div 65536)>>
             \o (IF pad3 THEN <<>> ELSE <<Chr((n \div 256) % 256)>>)
             \o (IF pad4 THEN <<>> ELSE <<Chr(n % 256)>>)
             \o b64decodeFrom(e, i + 4)

b64decode(e) == b64decodeFrom(e, 1)

(***************************************************************************)
(* basic_patch                                                             *)
(***************************************************************************)
patch_tuple(success, data) == [success |-> success, data |-> data]

CouldntFind(key) == <<"Couldn't find current ", key, " in meta.yaml">>

\* keys: the order in which `for key in replace_dict` visits the keys.
\* The replace statement follows the return inside the if-block, so it is
\* never executed and the text reaches the encoder as it came in.
RECURSIVE basic_patch_loop(_, _, _, _)
basic_patch_loop(text, replace_dict, keys, i) ==
    IF i > Len(keys) THEN patch_tuple(TRUE, b64encode(text))
    ELSE IF Find(text, replace_dict[keys[i]][1]) < 0
         THEN patch_tuple(FALSE, CouldntFind(keys[i]))
         ELSE basic_patch_loop(text, replace_dict, keys, i + 1)

\* a patch engine that looks for the old version only
basic_patch_version_only(text, replace_dict, keys) ==
    IF Find(text, replace_dict["version"][1]) < 0
    THEN patch_tuple(FALSE, CouldntFind("version"))
    ELSE patch_tuple(TRUE, b64encode(text))

basic_patch(text, replace_dict, keys) == basic_patch_loop(text, replace_dict, keys, 1)

\* dict iteration order of {'version': ..., 'sha': ...}: insertion order on
\* Python >= 3.6, unspecified on the declared environment (python ==3.5)
KeyOrders == {<<"version", "sha">>, <<"sha", "version">>}

(***************************************************************************)
(* Feedstock_Meta_Yaml                                                     *)
(*                                                                         *)
(* The raw text is a sequence of lines.  Only the lines that bear on the   *)
(* build number are told apart:                                            *)
(*   "lit"   `  number: <v>`            the build section's literal field  *)
(*   "ref"   `  number: {{ <var> }}`    the field set from a Jinja variable*)
(*   "set"   `{% set <var> = <v> %}`    a Jinja assignment                 *)
(*   "echo"  `# ... number: <v>`        the same words outside the field   *)
(*   "other" any other line                                                *)
(***************************************************************************)
Digit(d) == CASE d = 0 -> "0" [] d = 1 -> "1" [] d = 2 -> "2" [] d = 3 -> "3"
              [] d = 4 -> "4" [] d = 5 -> "5" [] d = 6 -> "6" [] d = 7 -> "7"
              [] d = 8 -> "8" [] d = 9 -> "9"

\* str(n) of a non-negative int
RECURSIVE Str(_)
Str(n) == IF n < 10 THEN <<Digit(n)>> ELSE Str(n \div 10) \o <<Digit(n % 10)>>

BuildNumbers == {0, 1, 10}

JinjaNames == {"build"}

Line(k, var, v) == [k |-> k, var |-> var, v |-> v]

NumberLines ==
    {Line("lit", "", Str(n)) : n \in BuildNumbers}
    \cup {Line("ref", x, <<>>) : x \in JinjaNames}

OtherLines ==
    {Line("echo", "", Str(n)) : n \in BuildNumbers}
    \cup {Line("set", x, Str(n)) : x \in JinjaNames, n \in BuildNumbers}
    \cup {Line("other", "", <<>>)}

\* recipes whose build section declares its number exactly once
Recipes ==
    {r \in UNION {[1..n -> NumberLines \cup OtherLines] : n \in 1..MaxLines} :
        Cardinality({i \in DOMAIN r : r[i] \in NumberLines}) = 1}

\* value Jinja gives a variable at line i: its last assignment above, else
\* the empty rendering of an undefined name
JinjaValue(lines, x, i) ==
    LET sets == {j \in 1..(i - 1) : lines[j].k = "set" /\ lines[j].var = x}
    IN  IF sets = {} THEN <<>>
        ELSE lines[CHOOSE j \in sets : \A m \in sets : m <= j].v

\* yaml.load(Template(text).render(), Loader=yaml.BaseLoader)['build']['number']
RenderedBuildNumber(lines) ==
    LET i == CHOOSE j \in DOMAIN lines : lines[j] \in NumberLines
    IN  IF lines[i].k = "lit" THEN lines[i].v ELSE JinjaValue(lines, lines[i].var, i)

\* jinja_vars: variable name -> jinja_var(value, defining statement); a later
\* assignment of the same name overwrites an earlier one
JinjaVars(lines) ==
    LET names == {lines[j].var : j \in {m \in DOMAIN lines : lines[m].k = "set"}}
    IN  [x \in names |->
            LET sets == {j \in DOMAIN lines : lines[j].k = "set" /\ lines[j].var = x}
                last == CHOOSE j \in sets : \A m \in sets : m <= j
            IN  [value |-> lines[last].v, string |-> lines[last]]]

\* yaml_jinja_refs: field name -> the `{{ var }}` expression assigned to it
YamlJinjaRefs(lines) ==
    LET refs == {j \in DOMAIN lines : lines[j].k = "ref"}
    IN  [f \in (IF refs = {} THEN {} ELSE {"number"}) |->
            <<"{{", lines[CHOOSE j \in refs : \A m \in refs : m <= j].var, "}}">>]

\* Feedstock_Meta_Yaml(raw_text): __init__ followed by _parse_text
ParseText(lines) ==
    [text |-> lines,
     yaml_build_number |-> RenderedBuildNumber(lines),
     jinja_vars |-> JinjaVars(lines),
     yaml_jinja_refs |-> YamlJinjaRefs(lines)]

\* the attributes an instance has after construction
InstanceAttributes ==
    {"_text", "_yaml_dict", "checksum_type", "pypi_package", "bundle_type",
     "reqs", "jinja_vars", "yaml_jinja_refs"}

\* re.findall('number: *<old>', text): the pattern is not anchored at the end,
\* so `number: 10` matches for old = 1
NumberMatches(lines, old) ==
    {j \in DOMAIN lines :
        /\ lines[j].k \in {"lit", "echo"}
        /\ MatchesAt(lines[j].v, old, 1)}

\* find_replace_update: replace the mapped line, then parse again
find_replace_update(self, old_line, new_line) ==
    ParseText([j \in DOMAIN self.text |->
                  IF self.text[j] = old_line THEN new_line ELSE self.text[j]])

Returned(ret, self) == [ret |-> ret, self |-> self]

\* build(): str(self._yaml_dict['package']['number']); the package section
\* of a recipe holds its name and version and the number is in the build
\* section, so the lookup raises
build(self) == <<"raise", "KeyError">>

\* '{% set {} = {} %}'.format(build_var, new_number): the literal braces of the
\* Jinja statement are not doubled, so str.format rejects the format string
FormatSetStatement(build_var, new_number) == "ValueError"

\* set_build_number(new_number): what the call returns or raises, and the
\* instance afterwards
set_build_number(self, new_number) ==
    IF Str(new_number) = self.yaml_build_number
    THEN Returned("True", self)
    ELSE IF "number" \in DOMAIN self.yaml_jinja_refs
    THEN LET build_var == self.yaml_jinja_refs["number"][2]
         IN  IF build_var \notin DOMAIN self.jinja_vars
             THEN Returned("KeyError", self)
             ELSE IF FormatSetStatement(build_var, new_number) = "ValueError"
             THEN Returned("ValueError", self)
             ELSE Returned("True",
                           find_replace_update(self, self.jinja_vars[build_var].string,
                                               Line("set", build_var, Str(new_number))))
    ELSE IF "text" \notin InstanceAttributes
    THEN Returned("AttributeError", self)
    ELSE LET matches == NumberMatches(self.text, self.yaml_build_number)
         IN  IF Cardinality(matches) > 1 THEN Returned("False", self)
             ELSE IF matches = {} THEN Returned("IndexError", self)
             ELSE Returned("AttributeError", self)

(***************************************************************************)
(* Checksum resolver: pypi_legacy_json_sha, pypi_org_sha, pypi_sha         *)
(***************************************************************************)
\* what a call raised instead of returning
Raised(e) == <<"raise", e>>

\* str.endswith on token sequences
EndsWith(s, suffix) ==
    /\ Len(suffix) <= Len(s)
    /\ SubSeq(s, Len(s) - Len(suffix) + 1, Len(s)) = suffix

\* response: [ok, releases], releases a function version -> list of
\* [filename, digests], digests a function with or without the key "sha256"
pypi_legacy_json_sha(response, version, bundle_type) ==
    IF ~response.ok THEN None
    ELSE IF version \notin DOMAIN response.releases THEN None
    ELSE LET files == response.releases[version]
             hits == {j \in DOMAIN files : EndsWith(files[j].filename, bundle_type)}
         IN  IF hits = {} THEN None
             ELSE LET release == files[CHOOSE j \in hits : \A m \in hits : j <= m]
                  IN  IF "sha256" \in DOMAIN release.digests
                      THEN release.digests["sha256"]
                      ELSE None

\* page: [anchor, clipboard]: whether the download link is found, and the
\* data-clipboard-text of the element three steps after it, None when that
\* element carries no such attribute.  Only AttributeError is caught.
pypi_org_sha(page) ==
    IF ~page.anchor THEN None
    ELSE IF page.clipboard = None THEN Raised("KeyError")
    ELSE page.clipboard

\* a resolver that gives up when the index tier does
pypi_sha_run_no_fallback(response, page, pypi_version, bundle_type) ==
    LET sha == pypi_legacy_json_sha(response, pypi_version, bundle_type)
    IN  [index |-> sha, scraped |-> FALSE, result |-> sha]

\* pypi_sha, with what each tier contributed: the index tier's answer,
\* whether the release page was scraped, and the value returned
pypi_sha_run(response, page, pypi_version, bundle_type) ==
    LET sha == pypi_legacy_json_sha(response, pypi_version, bundle_type)
    IN  IF sha # None
        THEN [index |-> sha, scraped |-> FALSE, result |-> sha]
        ELSE [index |-> sha, scraped |-> TRUE, result |-> pypi_org_sha(page)]

pypi_sha(response, page, pypi_version, bundle_type) ==
    pypi_sha_run(response, page, pypi_version, bundle_type).result

(***************************************************************************)
(* Feedstocks, feedstock_status                                            *)
(***************************************************************************)
False == <<"False">>

FeedstockSuffix == <<"-", "f", "e", "e", "d", "s", "t", "o", "c", "k">>

PackageNames == <<"A", "B", "C", "D", "E">>

\* the name of the i-th feedstock repository
FeedstockName(i) == <<PackageNames[i]>> \o FeedstockSuffix

\* fs.name[:-10]
PackageOf(name) == SubSeq(name, 1, Len(name) - 10)

TarGz == <<".tar", ".gz">>

fs_tuple(success, needs_update, data) ==
    [success |-> success, needs_update |-> needs_update, data |-> data]

Msg(m) == <<m>>

\* pkg_resources.parse_version on a version made of digits
RECURSIVE ParseVersion(_)
ParseVersion(v) ==
    IF Len(v) = 0 THEN 0
    ELSE 10 * ParseVersion(SubSeq(v, 1, Len(v) - 1))
         + (CHOOSE d \in 0..9 : Digit(d) = v[Len(v)])

\* feedstock: the repository as it is read: [name, parseable, has_sha256,
\* text, version, sha256, raw_reqs, pypi_version]
feedstock_status(feedstock) ==
    IF ~feedstock.parseable THEN fs_tuple(FALSE, FALSE, Msg("Couldn't parse meta.yaml"))
    ELSE IF ~feedstock.has_sha256
    THEN fs_tuple(FALSE, FALSE, Msg("Missing meta.yaml key: [source][sha256]"))
    ELSE IF feedstock.pypi_version = False
    THEN fs_tuple(FALSE, FALSE, Msg("Couldn't find package in PyPI"))
    ELSE IF ParseVersion(feedstock.version) >= ParseVersion(feedstock.pypi_version)
    THEN fs_tuple(TRUE, FALSE, None)
    ELSE fs_tuple(TRUE, TRUE,
                  [text |-> feedstock.text,
                   yaml_strs |-> [version |-> feedstock.version,
                                  sha256 |-> feedstock.sha256],
                   pypi_version |-> feedstock.pypi_version,
                   reqs |-> feedstock.raw_reqs \ {<<"python">>, <<"setuptools">>}])

fs_status(fs, status) == [fs |-> fs, status |-> status]

\* defaultdict(list)[key].append(name)
DictAppend(d, key, name) ==
    IF key \in DOMAIN d THEN [d EXCEPT ![key] = Append(@, name)]
    ELSE d @@ (key :> <<name>>)

(***************************************************************************)
(* Independent-subset selection                                            *)
(***************************************************************************)
\* set([x.fs.name[:-10] for x in can_be_updated])
package_names_of(can_be_updated) ==
    {PackageOf(can_be_updated[j].fs.name) : j \in DOMAIN can_be_updated}

\* a selection that tolerates one dependency inside the batch
RECURSIVE indep_updates_lenient(_, _)
indep_updates_lenient(can_be_updated, package_names) ==
    IF can_be_updated = <<>> THEN <<>>
    ELSE LET x == Head(can_be_updated)
             rest == indep_updates_lenient(Tail(can_be_updated), package_names)
         IN  IF Cardinality(x.status.data.reqs \cap package_names) <= 1
             THEN <<x>> \o rest
             ELSE rest

\* [x for x in can_be_updated if len(x.status.data.reqs & package_names) < 1]
RECURSIVE indep_updates_of(_, _)
indep_updates_of(can_be_updated, package_names) ==
    IF can_be_updated = <<>> THEN <<>>
    ELSE LET x == Head(can_be_updated)
             rest == indep_updates_of(Tail(can_be_updated), package_names)
         IN  IF Cardinality(x.status.data.reqs \cap package_names) < 1
             THEN <<x>> \o rest
             ELSE rest

(***************************************************************************)
(* even_feedstock_fork                                                     *)
(***************************************************************************)
\* remote: [exists, behind_by, ahead_by, deletable]: whether the user has a
\* fork, how the fork compares with conda-forge:master, and whether the host
\* lets it be deleted.  A freshly created fork is even with upstream.
\* Returns the fork (or None) and the fork operations performed.
NoFork == [name |-> None, behind_by |-> 0, ahead_by |-> 0]

\* a reconciliation that never looks at whether the fork is ahead
even_feedstock_fork_unguarded(remote, name) ==
    LET created == ~remote.exists
        ahead_by == IF created THEN 0 ELSE remote.ahead_by
        first_ops == IF created THEN <<[op |-> "create_fork", name |-> name]>> ELSE <<>>
    IN  IF ahead_by > 0 /\ remote.deletable
        THEN [fork |-> [name |-> name, behind_by |-> 0, ahead_by |-> 0],
              ops |-> first_ops \o <<[op |-> "delete_fork", name |-> name],
                                     [op |-> "create_fork", name |-> name]>>]
        ELSE [fork |-> [name |-> name,
                        behind_by |-> IF created THEN 0 ELSE remote.behind_by,
                        ahead_by |-> ahead_by],
              ops |-> first_ops]

even_feedstock_fork(remote, name) ==
    LET created == ~remote.exists
        behind_by == IF created THEN 0 ELSE remote.behind_by
        ahead_by == IF created THEN 0 ELSE remote.ahead_by
        first_ops == IF created THEN <<[op |-> "create_fork", name |-> name]>> ELSE <<>>
        Fork(b, a) == [name |-> name, behind_by |-> b, ahead_by |-> a]
    IN  IF behind_by > 0 THEN [fork |-> NoFork, ops |-> first_ops]
        ELSE IF ahead_by > 0
        THEN IF ~remote.deletable THEN [fork |-> NoFork, ops |-> first_ops]
             ELSE [fork |-> Fork(0, 0),
                   ops |-> first_ops \o <<[op |-> "delete_fork", name |-> name],
                                          [op |-> "create_fork", name |-> name]>>]
        ELSE [fork |-> Fork(behind_by, ahead_by), ops |-> first_ops]

\* the user has no fork of the feedstock, or has one that compares with
\* upstream in some way and that the host lets or does not let them delete
Remotes ==
    {[exists |-> FALSE, behind_by |-> 0, ahead_by |-> 0, deletable |-> TRUE]}
    \cup [exists : {TRUE}, behind_by : 0..1, ahead_by : 0..1, deletable : BOOLEAN]

(***************************************************************************)
(* State                                                                   *)
(***************************************************************************)
VARIABLES
    text,           \* basic_patch: the raw text handed to the patch engine
    replace_dict,   \* basic_patch: field id -> <<old value, new value>>
    first_patch,    \* result of applying basic_patch to text
    second_patch,   \* result of applying it again to the first payload
    patch_pc,       \* "idle", "ready", "applied" or "reapplied"
    meta,           \* a Feedstock_Meta_Yaml instance
    new_number,     \* the argument of set_build_number
    returns,        \* one entry for each call of set_build_number so far
    meta_pc,        \* "idle" or "ready"
    sha_request,    \* pypi_sha: the index response, the release page, the request
    sha_result,     \* pypi_sha: what each tier gave and what was returned
    sha_pc,         \* "idle", "ready" or "resolved"
    dry_run,        \* tick_feedstocks: --dry-run
    no_regenerate,  \* tick_feedstocks: --no-regenerate
    feedstocks,     \* the feedstocks the user maintains, as they are read
    pc,             \* the statement tick_feedstocks is at
    idx,            \* index of the running loop
    can_be_updated,
    status_error_dict,
    up_to_date_count,
    package_names,
    indep_updates,
    successful_forks,
    successful_updates,
    patch_error_dict,
    error_dict,
    new_sha,
    patch,
    fork,
    pull_count,
    effects,        \* what was done to the host, in order: [op, name]
    history,        \* per step taken for a candidate: [step, name, ok, data]
    report          \* the failure lines printed at the end: <<heading, message, name>>

patchVars == <<text, replace_dict, first_patch, second_patch, patch_pc>>

metaVars == <<meta, new_number, returns, meta_pc>>

shaVars == <<sha_request, sha_result, sha_pc>>

tickVars ==
    <<dry_run, no_regenerate, feedstocks, pc, idx, can_be_updated, status_error_dict,
      up_to_date_count, package_names, indep_updates, successful_forks,
      successful_updates, patch_error_dict, error_dict, new_sha, patch, fork,
      pull_count, effects, history, report>>

vars == <<patchVars, metaVars, shaVars, tickVars>>

(***************************************************************************)
(* Patch engine applied to arbitrary raw texts                             *)
(***************************************************************************)
OldVersions == {<<"1">>}
NewVersions == {<<"2">>, <<"2", "2">>}
OldShas == {<<"a">>}
NewShas == {<<"b">>, None}

ReplaceDicts ==
    {[version |-> <<ov, nv>>, sha |-> <<os, ns>>] :
        ov \in OldVersions, nv \in NewVersions, os \in OldShas, ns \in NewShas}

NoPatch == patch_tuple(FALSE, None)

PatchIdle ==
    /\ text = <<>>
    /\ replace_dict = [version |-> <<None, None>>, sha |-> <<None, None>>]
    /\ first_patch = NoPatch
    /\ second_patch = NoPatch
    /\ patch_pc = "idle"

MetaIdle ==
    /\ meta = ParseText(<<Line("lit", "", Str(0))>>)
    /\ new_number = 0
    /\ returns = <<>>
    /\ meta_pc = "idle"

NoRequest == [response |-> [ok |-> FALSE, releases |-> <<>>],
              page |-> [anchor |-> FALSE, clipboard |-> None],
              pypi_version |-> <<>>, bundle_type |-> <<>>]

NoResult == [index |-> None, scraped |-> FALSE, result |-> None]

ShaIdle ==
    /\ sha_request = NoRequest
    /\ sha_result = NoResult
    /\ sha_pc = "idle"

TickIdle ==
    /\ dry_run = FALSE
    /\ no_regenerate = FALSE
    /\ feedstocks = <<>>
    /\ pc = "idle"
    /\ idx = 1
    /\ can_be_updated = <<>>
    /\ status_error_dict = <<>>
    /\ up_to_date_count = 0
    /\ package_names = {}
    /\ indep_updates = <<>>
    /\ successful_forks = <<>>
    /\ successful_updates = <<>>
    /\ patch_error_dict = <<>>
    /\ error_dict = <<>>
    /\ new_sha = None
    /\ patch = NoPatch
    /\ fork = NoFork
    /\ pull_count = 0
    /\ effects = <<>>
    /\ history = <<>>
    /\ report = {}

InitPatch ==
    /\ MetaIdle
    /\ ShaIdle
    /\ TickIdle
    /\ text \in StringsUpTo(MaxTextLen)
    /\ replace_dict \in ReplaceDicts
    /\ first_patch = NoPatch
    /\ second_patch = NoPatch
    /\ patch_pc = "ready"

\* patch = basic_patch(text, replace_dict)
ApplyPatch ==
    /\ patch_pc = "ready"
    /\ \E keys \in KeyOrders : first_patch' = basic_patch(text, replace_dict, keys)
    /\ patch_pc' = "applied"
    /\ UNCHANGED <<text, replace_dict, second_patch, metaVars, shaVars, tickVars>>

\* the same mapping applied to the text a successful application produced
ReapplyPatch ==
    /\ patch_pc = "applied"
    /\ first_patch.success
    /\ \E keys \in KeyOrders :
          second_patch' = basic_patch(b64decode(first_patch.data), replace_dict, keys)
    /\ patch_pc' = "reapplied"
    /\ UNCHANGED <<text, replace_dict, first_patch, metaVars, shaVars, tickVars>>

NextPatch == ApplyPatch \/ ReapplyPatch

SpecPatch == InitPatch /\ [][NextPatch]_vars

(***************************************************************************)
(* Claims about the patch engine                                           *)
(***************************************************************************)
Contains(s, pat) == Find(s, pat) >= 0

\* s with its one occurrence of old1 and its one occurrence of old2 replaced
\* and nothing else touched
SubstitutedOnce(s, r, old1, new1, old2, new2) ==
    \E i \in 1..Len(s), j \in 1..Len(s) :
        /\ MatchesAt(s, old1, i)
        /\ MatchesAt(s, old2, j)
        /\ \/ /\ i + Len(old1) <= j
              /\ r = SubSeq(s, 1, i - 1) \o new1
                      \o SubSeq(s, i + Len(old1), j - 1) \o new2
                      \o SubSeq(s, j + Len(old2), Len(s))
           \/ /\ j + Len(old2) <= i
              /\ r = SubSeq(s, 1, j - 1) \o new2
                      \o SubSeq(s, j + Len(old2), i - 1) \o new1
                      \o SubSeq(s, i + Len(old1), Len(s))

PatchApplied == patch_pc \in {"applied", "reapplied"}

OldValuesUnique ==
    /\ Count(text, replace_dict.version[1]) = 1
    /\ Count(text, replace_dict.sha[1]) = 1

\* C1: whenever the old version and the old checksum each occur exactly once
\* in the raw text, basic_patch succeeds and its payload holds the new
\* version and the new checksum, holds neither old value, and equals the
\* input outside the two substituted spans.
C1_PatchSubstitutes ==
    (PatchApplied /\ OldValuesUnique /\ replace_dict.sha[2] # None) =>
        /\ first_patch.success
        /\ LET out == b64decode(first_patch.data)
           IN  /\ Contains(out, replace_dict.version[2])
               /\ Contains(out, replace_dict.sha[2])
               /\ ~Contains(out, replace_dict.version[1])
               /\ ~Contains(out, replace_dict.sha[1])
               /\ SubstitutedOnce(text, out,
                                  replace_dict.version[1], replace_dict.version[2],
                                  replace_dict.sha[1], replace_dict.sha[2])

\* C10: applying the same mapping to the text produced by a successful
\* application fails (the old values are no longer found), so nothing is
\* substituted a second time.
C10_RerunDeclines ==
    patch_pc = "reapplied" => ~second_patch.success

(***************************************************************************)
(* tick_feedstocks                                                         *)
(***************************************************************************)
MaxFeedstocks == 2

Pkg(j) == <<PackageNames[j]>>

Z == <<"Z">>

\* every recipe declares version 1 and checksum a, and requires python
Repo(j, parseable, has_sha256, pypi_version, raw_text, reqs) ==
    [name |-> FeedstockName(j), parseable |-> parseable, has_sha256 |-> has_sha256,
     text |-> raw_text, version |-> <<"1">>, sha256 |-> <<"a">>,
     raw_reqs |-> reqs \cup {<<"python">>}, pypi_version |-> pypi_version]

\* feedstocks that are unreadable, lack the key, are unknown to PyPI or are
\* up to date
SettledRepos(j) ==
    {Repo(j, FALSE, TRUE, <<"2">>, <<"1", "a">>, {}),
     Repo(j, TRUE, FALSE, <<"2">>, <<"1", "a">>, {}),
     Repo(j, TRUE, TRUE, False, <<"1", "a">>, {}),
     Repo(j, TRUE, TRUE, <<"1">>, <<"1", "a">>, {})}

\* raw texts in which the rendered version and checksum do or do not occur
TickTexts == {<<"1", "a">>, <<"1", "b">>, <<"2", "a">>, <<"2", "b">>}

TickRepos(j) ==
    SettledRepos(j)
    \cup {Repo(j, TRUE, TRUE, <<"2">>, t, reqs) : t \in TickTexts, reqs \in {{}, {Pkg(1)}}}

RECURSIVE TickLists(_)
TickLists(n) ==
    IF n = 0 THEN {<<>>}
    ELSE {Append(l, r) : l \in TickLists(n - 1), r \in TickRepos(n)}

TickResponses ==
    {[ok |-> FALSE, releases |-> <<>>],
     [ok |-> TRUE,
      releases |-> (<<"2">> :> <<[filename |-> <<"pkg-2">> \o TarGz,
                                 digests |-> [sha256 |-> <<"b">>]]>>)]}

TickPages == {[anchor |-> FALSE, clipboard |-> None],
              [anchor |-> TRUE, clipboard |-> None],
              [anchor |-> TRUE, clipboard |-> <<"b">>]}

Init ==
    /\ PatchIdle
    /\ MetaIdle
    /\ ShaIdle
    /\ dry_run \in BOOLEAN
    /\ no_regenerate \in BOOLEAN
    /\ feedstocks \in UNION {TickLists(n) : n \in 1..MaxFeedstocks}
    /\ pc = "status"
    /\ idx = 1
    /\ can_be_updated = <<>>
    /\ status_error_dict = <<>>
    /\ up_to_date_count = 0
    /\ package_names = {}
    /\ indep_updates = <<>>
    /\ successful_forks = <<>>
    /\ successful_updates = <<>>
    /\ patch_error_dict = <<>>
    /\ error_dict = <<>>
    /\ new_sha = None
    /\ patch = NoPatch
    /\ fork = NoFork
    /\ pull_count = 0
    /\ effects = <<>>
    /\ history = <<>>
    /\ report = {}

inputs == <<dry_run, no_regenerate, feedstocks>>

others == <<patchVars, metaVars, shaVars>>

Step(step, name, ok, data) == [step |-> step, name |-> name, ok |-> ok, data |-> data]

Effect(op, name) == [op |-> op, name |-> name]

\* lines 553-560: one pass of the status loop
CheckStatus ==
    /\ pc = "status"
    /\ idx <= Len(feedstocks)
    /\ LET feedstock == feedstocks[idx]
           status == feedstock_status(feedstock)
       IN  /\ can_be_updated' =
                 IF status.success /\ status.needs_update
                 THEN Append(can_be_updated, fs_status(feedstock, status))
                 ELSE can_be_updated
           /\ status_error_dict' =
                 IF status.success /\ status.needs_update THEN status_error_dict
                 ELSE IF ~status.success
                 THEN DictAppend(status_error_dict, status.data, feedstock.name)
                 ELSE status_error_dict
           /\ up_to_date_count' =
                 IF status.success /\ ~status.needs_update
                 THEN up_to_date_count + 1
                 ELSE up_to_date_count
           /\ history' = Append(history, Step("status", feedstock.name, status.success, None))
    /\ idx' = idx + 1
    /\ UNCHANGED <<inputs, pc, package_names, indep_updates, successful_forks,
                   successful_updates, patch_error_dict, error_dict, new_sha, patch,
                   fork, pull_count, effects, report, others>>

\* lines 562-565
SelectIndependent ==
    /\ pc = "status"
    /\ idx > Len(feedstocks)
    /\ package_names' = package_names_of(can_be_updated)
    /\ indep_updates' = indep_updates_of(can_be_updated, package_names')
    /\ pc' = "update"
    /\ idx' = 1
    /\ UNCHANGED <<inputs, can_be_updated, status_error_dict, up_to_date_count,
                   successful_forks, successful_updates, patch_error_dict, error_dict,
                   new_sha, patch, fork, pull_count, effects, history, report, others>>

\* lines 573-578: an exception of the resolver is not caught and ends the run
ResolveSha ==
    /\ pc = "update"
    /\ idx <= Len(indep_updates)
    /\ \E response \in TickResponses, page \in TickPages :
          LET update == indep_updates[idx]
              sha == pypi_sha(response, page, update.status.data.pypi_version, TarGz)
          IN  /\ history' = Append(history, Step("sha", update.fs.name,
                                         sha \notin {None, Raised("KeyError")}, sha))
              /\ IF sha = Raised("KeyError")
                 THEN /\ pc' = "raised"
                      /\ UNCHANGED <<new_sha, patch_error_dict>>
                 ELSE /\ pc' = "patch"
                      /\ new_sha' = sha
                      /\ patch_error_dict' =
                            IF sha = None
                            THEN DictAppend(patch_error_dict,
                                            Msg("Couldn't get SHA from PyPI"), update.fs.name)
                            ELSE patch_error_dict
    /\ UNCHANGED <<inputs, idx, can_be_updated, status_error_dict, up_to_date_count,
                   package_names, indep_updates, successful_forks, successful_updates,
                   error_dict, patch, fork, pull_count, effects, report, others>>

\* a loop that goes on to the fork in a dry run too
after_patch_ignoring_dry_run(success, dry) ==
    IF ~success THEN "continue" ELSE "fork"

\* lines 588-595: where the loop goes once the patch is computed
after_patch(success, dry) ==
    IF ~success THEN "continue"
    ELSE IF dry THEN "continue"
    ELSE "fork"

\* lines 580-595
MakePatch ==
    /\ pc = "patch"
    /\ \E keys \in KeyOrders :
          LET update == indep_updates[idx]
              p == basic_patch(update.status.data.text,
                               [version |-> <<update.status.data.yaml_strs.version,
                                              update.status.data.pypi_version>>,
                                sha |-> <<update.status.data.yaml_strs.sha256, new_sha>>],
                               keys)
              goes == after_patch(p.success, dry_run)
          IN  /\ patch' = p
              /\ patch_error_dict' =
                    IF ~p.success
                    THEN DictAppend(patch_error_dict, p.data, update.fs.name)
                    ELSE patch_error_dict
              /\ history' = Append(history, Step("patch", update.fs.name, p.success, p.data))
              /\ pc' = IF goes = "continue" THEN "update" ELSE goes
              /\ idx' = IF goes = "continue" THEN idx + 1 ELSE idx
    /\ UNCHANGED <<inputs, can_be_updated, status_error_dict, up_to_date_count,
                   package_names, indep_updates, successful_forks, successful_updates,
                   error_dict, new_sha, fork, pull_count, effects, report, others>>

\* lines 597-601
MakeFork ==
    /\ pc = "fork"
    /\ \E remote \in Remotes :
          LET update == indep_updates[idx]
              r == even_feedstock_fork(remote, update.fs.name)
          IN  /\ fork' = r.fork
              /\ effects' = effects \o r.ops
              /\ history' = Append(history, Step("fork", update.fs.name, r.fork # NoFork,
                                             [remote |-> remote, fork |-> r.fork,
                                              ops |-> r.ops]))
              /\ IF r.fork = NoFork
                 THEN /\ error_dict' = DictAppend(error_dict, Msg("Couldn't fork"), update.fs.name)
                      /\ pc' = "update"
                      /\ idx' = idx + 1
                 ELSE /\ pc' = "write"
                      /\ UNCHANGED <<error_dict, idx>>
    /\ UNCHANGED <<inputs, can_be_updated, status_error_dict, up_to_date_count,
                   package_names, indep_updates, successful_forks, successful_updates,
                   patch_error_dict, new_sha, patch, pull_count, report, others>>

\* a loop that keeps the update and its fork whatever the host answered
append_ignoring_answer(r_ok, list, item) == Append(list, item)

\* lines 613-618: an update and its fork are kept only when the write was
\* accepted
append_if_ok(r_ok, list, item) == IF r_ok THEN Append(list, item) ELSE list

\* lines 603-618: the host accepts the write or rejects it
WritePatch ==
    /\ pc = "write"
    /\ \E accepted \in BOOLEAN :
          LET update == indep_updates[idx]
          IN  /\ history' = Append(history, Step("write", update.fs.name, accepted, patch.data))
              /\ successful_updates' = append_if_ok(accepted, successful_updates, update)
              /\ successful_forks' = append_if_ok(accepted, successful_forks, fork)
              /\ IF accepted
                 THEN /\ effects' = Append(effects, Effect("put", update.fs.name))
                      /\ UNCHANGED error_dict
                 ELSE /\ error_dict' = DictAppend(error_dict, Msg("Couldn't apply patch"),
                                                  update.fs.name)
                      /\ UNCHANGED effects
    /\ pc' = "update"
    /\ idx' = idx + 1
    /\ UNCHANGED <<inputs, can_be_updated, status_error_dict, up_to_date_count,
                   package_names, indep_updates, patch_error_dict, new_sha, patch, fork,
                   pull_count, report, others>>

\* lines 620-624: the whole regeneration loop
RegenerateForks ==
    /\ pc = "update"
    /\ idx > Len(indep_updates)
    /\ effects' =
          IF no_regenerate THEN effects
          ELSE effects \o [j \in 1..Len(successful_forks) |->
                              Effect("regenerate", successful_forks[j].name)]
    /\ pc' = "pull"
    /\ idx' = 1
    /\ UNCHANGED <<inputs, can_be_updated, status_error_dict, up_to_date_count,
                   package_names, indep_updates, successful_forks, successful_updates,
                   patch_error_dict, error_dict, new_sha, patch, fork, pull_count,
                   history, report, others>>

\* lines 627-638: one pass of the pull loop; GithubException is swallowed
SubmitPull ==
    /\ pc = "pull"
    /\ idx <= Len(successful_updates)
    /\ \E created \in BOOLEAN :
          LET update == successful_updates[idx]
          IN  /\ history' = Append(history, Step("pull", update.fs.name, created, None))
              /\ effects' = IF created
                            THEN Append(effects, Effect("create_pull", update.fs.name))
                            ELSE effects
              /\ pull_count' = IF created THEN pull_count + 1 ELSE pull_count
    /\ idx' = idx + 1
    /\ UNCHANGED <<inputs, pc, can_be_updated, status_error_dict, up_to_date_count,
                   package_names, indep_updates, successful_forks, successful_updates,
                   patch_error_dict, error_dict, new_sha, patch, fork, report, others>>

\* lines 647-664: the failure lines of the end-of-run report
report_lines(status_errors, patch_errors, errors) ==
    LET Lines(heading, d, keys) ==
            UNION {{[heading |-> heading, message |-> m, name |-> d[m][j]] :
                        j \in DOMAIN d[m]} : m \in keys}
    IN  Lines(Msg("Couldn't check status"), status_errors, DOMAIN status_errors)
        \cup Lines(Msg("Couldn't create patch"), patch_errors, DOMAIN patch_errors)
        \cup UNION {Lines(m, errors, {m} \cap DOMAIN errors) :
                       m \in {Msg("Couldn't fork"), Msg("Couldn't apply patch"),
                               Msg("Couldn't create pull")}}

\* lines 640-664
Report ==
    /\ pc = "pull"
    /\ idx > Len(successful_updates)
    /\ report' = report_lines(status_error_dict, patch_error_dict, error_dict)
    /\ pc' = "done"
    /\ UNCHANGED <<inputs, idx, can_be_updated, status_error_dict, up_to_date_count,
                   package_names, indep_updates, successful_forks, successful_updates,
                   patch_error_dict, error_dict, new_sha, patch, fork, pull_count,
                   effects, history, others>>

Next ==
    \/ CheckStatus
    \/ SelectIndependent
    \/ ResolveSha
    \/ MakePatch
    \/ MakeFork
    \/ WritePatch
    \/ RegenerateForks
    \/ SubmitPull
    \/ Report

Spec == Init /\ [][Next]_vars

(***************************************************************************)
(* The scan and the selection alone, over batches with many dependencies   *)
(***************************************************************************)
MaxBatch == 3
MaxReqs == 1

\* the requirement sets of a feedstock that is behind: up to MaxReqs
\* dependencies among the n packages and one package outside
SelectReqs(n) ==
    {d \in SUBSET ({Pkg(m) : m \in 1..n} \cup {Z}) : Cardinality(d) <= MaxReqs}

\* the j-th feedstock: up to date, or behind with the requirements reqs
SelectRepo(j, behind, reqs) ==
    IF behind THEN Repo(j, TRUE, TRUE, <<"2">>, <<"1", "a">>, reqs)
    ELSE Repo(j, TRUE, TRUE, <<"1">>, <<"1", "a">>, {})

InitSelect ==
    /\ PatchIdle
    /\ MetaIdle
    /\ ShaIdle
    /\ dry_run \in BOOLEAN
    /\ no_regenerate = FALSE
    /\ \E n \in 1..MaxBatch :
         \E behind \in [1..n -> BOOLEAN], reqs \in [1..n -> SelectReqs(n)] :
            /\ \A j \in 1..n : ~behind[j] => reqs[j] = {}
            /\ feedstocks = [j \in 1..n |-> SelectRepo(j, behind[j], reqs[j])]
    /\ pc = "status"
    /\ idx = 1
    /\ can_be_updated = <<>>
    /\ status_error_dict = <<>>
    /\ up_to_date_count = 0
    /\ package_names = {}
    /\ indep_updates = <<>>
    /\ successful_forks = <<>>
    /\ successful_updates = <<>>
    /\ patch_error_dict = <<>>
    /\ error_dict = <<>>
    /\ new_sha = None
    /\ patch = NoPatch
    /\ fork = NoFork
    /\ pull_count = 0
    /\ effects = <<>>
    /\ history = <<>>
    /\ report = {}

NextSelect == CheckStatus \/ SelectIndependent

SpecSelect == InitSelect /\ [][NextSelect]_vars

Selected == pc \notin {"idle", "status"}

\* the package a candidate updates: the name its feedstock's name extends
CandidatePackage(x) ==
    CHOOSE q \in {<<PackageNames[m]>> : m \in DOMAIN PackageNames} :
        q \o FeedstockSuffix = x.fs.name

\* x names no member of the batch
NamesNoMember(x) ==
    \A m \in DOMAIN can_be_updated :
        CandidatePackage(can_be_updated[m]) \notin x.status.data.reqs

Range(f) == {f[j] : j \in DOMAIN f}

Candidate(j, reqs) ==
    fs_status(Repo(j, TRUE, TRUE, <<"2">>, <<"1", "a">>, reqs),
              feedstock_status(Repo(j, TRUE, TRUE, <<"2">>, <<"1", "a">>, reqs)))

\* batch = {A(deps={B}), B(deps={}), C(deps={Z})}
ScenarioBatch ==
    can_be_updated = <<Candidate(1, {Pkg(2)}), Candidate(2, {}), Candidate(3, {Z})>>

\* C3: the selected subset is exactly the candidates that name no member of
\* the batch, each once and in batch order; a batch without
\* inter-dependencies is returned whole; {A(deps={B}), B(deps={}),
\* C(deps={Z})} yields {B, C}.
C3_IndependentSubset ==
    Selected =>
        /\ Range(indep_updates) = {x \in Range(can_be_updated) : NamesNoMember(x)}
        /\ Len(indep_updates) = Cardinality(Range(indep_updates))
        /\ (\A x \in Range(can_be_updated) : NamesNoMember(x))
              => indep_updates = can_be_updated
        /\ ScenarioBatch =>
              {CandidatePackage(x) : x \in Range(indep_updates)} = {Pkg(2), Pkg(3)}

\* the scenario batch has been selected from: A is held back
C3_Witness ==
    /\ Selected
    /\ ScenarioBatch
    /\ Len(indep_updates) = 2

(***************************************************************************)
(* Claims about the orchestrator                                           *)
(***************************************************************************)
\* the steps recorded for the feedstock called name after position k
LaterSteps(k, name) ==
    {history[m].step : m \in {n \in DOMAIN history : n > k /\ history[n].name = name}}

EffectsOn(name) == {effects[m].op : m \in {n \in DOMAIN effects : effects[n].name = name}}

TextOf(name) ==
    LET x == CHOOSE y \in Range(indep_updates) : y.fs.name = name
    IN  x.status.data.text

OldOf(name) ==
    LET x == CHOOSE y \in Range(indep_updates) : y.fs.name = name
    IN  x.status.data.yaml_strs

\* positions of the patch steps taken on a text without the old checksum
ChecksumMissingAt ==
    {k \in DOMAIN history :
        /\ history[k].step = "patch"
        /\ ~Contains(TextOf(history[k].name), OldOf(history[k].name).sha256)}

NoPatchNoWrite(k) ==
    /\ ~history[k].ok
    /\ LaterSteps(k, history[k].name) \cap {"fork", "write", "pull"} = {}
    /\ EffectsOn(history[k].name) = {}

C4_UnavailableSkipsCandidate ==
    /\ \A k \in DOMAIN history :
          (history[k].step = "sha" /\ history[k].data = None) =>
              /\ LaterSteps(k, history[k].name) = {}
              /\ EffectsOn(history[k].name) = {}
    /\ pc = "done" =>
          \A x \in Range(indep_updates) :
              \E k \in DOMAIN history :
                  history[k].step = "sha" /\ history[k].name = x.fs.name

HeadingOf(step) ==
    CASE step = "status" -> Msg("Couldn't check status")
      [] step = "sha" -> Msg("Couldn't create patch")
      [] step = "patch" -> Msg("Couldn't create patch")
      [] step = "fork" -> Msg("Couldn't fork")
      [] step = "write" -> Msg("Couldn't apply patch")
      [] step = "pull" -> Msg("Couldn't create pull")

\* C5: every failure of a step for a recipe is in the end-of-run report,
\* under the category of that step and with the recipe's name.
C5_FailuresReported ==
    pc = "done" =>
        \A k \in DOMAIN history :
            ~history[k].ok =>
                \E line \in report :
                    /\ line.name = history[k].name
                    /\ line.heading = HeadingOf(history[k].step)

\* C6: in dry-run mode nothing is ever done to the host, no fork or write is
\* attempted, and each candidate's pipeline ends with its patch step.
C6_DryRunNoSideEffects ==
    dry_run =>
        /\ effects = <<>>
        /\ pc \notin {"fork", "write"}
        /\ successful_forks = <<>>
        /\ successful_updates = <<>>
        /\ \A k \in DOMAIN history :
              /\ history[k].step \in {"status", "sha", "patch"}
              /\ history[k].step = "patch" => LaterSteps(k, history[k].name) = {}

\* a dry run has finished after computing a patch successfully
C6_Witness ==
    /\ dry_run
    /\ pc = "done"
    /\ \E k \in DOMAIN history : history[k].step = "patch" /\ history[k].ok

ListedUnder(d, name) == {m \in DOMAIN d : name \in Range(d[m])}

\* the outcome categories in which a candidate is recorded
Outcomes(name) ==
    (IF \E j \in DOMAIN successful_updates : successful_updates[j].fs.name = name
     THEN {"succeeded"} ELSE {})
    \cup (IF Msg("Couldn't get SHA from PyPI") \in ListedUnder(patch_error_dict, name)
          THEN {"checksum-unavailable"} ELSE {})
    \cup (IF ListedUnder(patch_error_dict, name) \ {Msg("Couldn't get SHA from PyPI")} # {}
          THEN {"patch-failed"} ELSE {})
    \cup (IF Msg("Couldn't fork") \in ListedUnder(error_dict, name)
          THEN {"fork-failed"} ELSE {})
    \cup (IF Msg("Couldn't apply patch") \in ListedUnder(error_dict, name)
          THEN {"write-failed"} ELSE {})

\* C11: at the end of a run no selected candidate is recorded under two
\* outcomes (succeeded, patch-failed, write-failed, fork-failed,
\* checksum-unavailable), none counted as succeeded is also listed under a
\* failure, and outside dry-run mode every selected candidate is recorded
\* under one.
C11_OutcomesExclusive ==
    pc = "done" =>
        \A x \in Range(indep_updates) :
            /\ Cardinality(Outcomes(x.fs.name)) <= 1
            /\ ~dry_run => Cardinality(Outcomes(x.fs.name)) = 1

StepRank(step) ==
    CASE step = "status" -> 0
      [] step = "sha" -> 1
      [] step = "patch" -> 2
      [] step = "fork" -> 3
      [] step = "write" -> 4
      [] step = "pull" -> 6

OpRank(op) ==
    CASE op \in {"create_fork", "delete_fork"} -> 3
      [] op = "put" -> 4
      [] op = "regenerate" -> 5
      [] op = "create_pull" -> 6

\* the step of the given kind succeeded for the candidate before position k
SucceededBefore(k, name, step) ==
    \E m \in DOMAIN history :
        /\ m < k
        /\ history[m].name = name
        /\ history[m].step = step
        /\ history[m].ok

WriteAccepted(name) == SucceededBefore(Len(history) + 1, name, "write")

\* C12: in a run that is not a dry run the steps of a candidate happen only
\* in the order patch, fork, write, regeneration, pull request, each at most
\* once; a fork is sought only after the candidate's patch succeeded, a write
\* is made only after its fork was obtained, and regeneration and the pull
\* request happen only for candidates whose write was accepted.
C12_PipelineOrder ==
    ~dry_run =>
        /\ \A k \in DOMAIN history :
              LET name == history[k].name
              IN  /\ history[k].step = "fork" => SucceededBefore(k, name, "patch")
                  /\ history[k].step = "write" =>
                        /\ SucceededBefore(k, name, "patch")
                        /\ SucceededBefore(k, name, "fork")
                  /\ history[k].step = "pull" =>
                        /\ SucceededBefore(k, name, "patch")
                        /\ SucceededBefore(k, name, "fork")
                        /\ SucceededBefore(k, name, "write")
                  /\ \A m \in DOMAIN history :
                        (m < k /\ history[m].name = name) =>
                            StepRank(history[m].step) < StepRank(history[k].step)
        /\ \A k \in DOMAIN effects :
              LET name == effects[k].name
              IN  /\ effects[k].op \in {"create_fork", "delete_fork"} =>
                        SucceededBefore(Len(history) + 1, name, "patch")
                  /\ effects[k].op \in {"put", "regenerate", "create_pull"} =>
                        WriteAccepted(name)
                  /\ effects[k].op = "regenerate" => ~no_regenerate
                  /\ \A m \in DOMAIN effects :
                        (m < k /\ effects[m].name = name) =>
                            /\ OpRank(effects[m].op) <= OpRank(effects[k].op)
                            /\ OpRank(effects[k].op) > 3 =>
                                  OpRank(effects[m].op) < OpRank(effects[k].op)

\* a run has finished in which one candidate went through patch, fork,
\* write, regeneration and pull request and another had its write rejected
C12_Witness ==
    /\ pc = "done"
    /\ ~dry_run
    /\ \E x, y \in Range(indep_updates) :
          /\ {"put", "regenerate", "create_pull"} \subseteq EffectsOn(x.fs.name)
          /\ \E k \in DOMAIN history :
                /\ history[k].name = y.fs.name
                /\ history[k].step = "write"
                /\ ~history[k].ok
          /\ EffectsOn(y.fs.name) \cap {"put", "regenerate", "create_pull"} = {}

ForkSteps == {k \in DOMAIN history : history[k].step = "fork"}

\* the user's fork exists and holds commits that upstream does not
ForkIsAhead(remote) == remote.exists /\ remote.behind_by > 0

\* the user's fork exists, holds nothing of its own and lacks upstream commits
UpstreamIsAhead(remote) ==
    remote.exists /\ remote.behind_by = 0 /\ remote.ahead_by > 0

OpsOf(ops) == {ops[m].op : m \in DOMAIN ops}

\* C13: for a fork that is ahead of upstream even_feedstock_fork returns
\* None without deleting or creating anything, the candidate is recorded
\* under "Couldn't fork" and nothing is ever written to, regenerated on or
\* pulled from it; a fork is deleted, and then re-created, only when
\* upstream is ahead and the fork is not; when that deletion fails nothing
\* is created and None is returned; every fork returned is even with
\* upstream.
C13_ForkReconciliation ==
    \A k \in ForkSteps :
        LET name == history[k].name
            remote == history[k].data.remote
            returned == history[k].data.fork
            ops == history[k].data.ops
        IN  /\ ForkIsAhead(remote) =>
                  /\ returned = NoFork
                  /\ ops = <<>>
                  /\ EffectsOn(name) = {}
                  /\ Msg("Couldn't fork") \in ListedUnder(error_dict, name)
                  /\ LaterSteps(k, name) = {}
            /\ "delete_fork" \in OpsOf(ops) =>
                  /\ UpstreamIsAhead(remote)
                  /\ ops = <<Effect("delete_fork", name), Effect("create_fork", name)>>
            /\ (UpstreamIsAhead(remote) /\ ~remote.deletable) =>
                  /\ returned = NoFork
                  /\ ops = <<>>
                  /\ Msg("Couldn't fork") \in ListedUnder(error_dict, name)
            /\ returned # NoFork =>
                  /\ returned.behind_by = 0
                  /\ returned.ahead_by = 0
                  /\ returned.name = name

\* a run has finished in which one candidate's fork was ahead of upstream
\* and another candidate's fork was deleted and re-created
C13_Witness ==
    /\ pc = "done"
    /\ \E k, m \in ForkSteps :
          /\ ForkIsAhead(history[k].data.remote)
          /\ history[k].data.fork = NoFork
          /\ UpstreamIsAhead(history[m].data.remote)
          /\ "delete_fork" \in OpsOf(history[m].data.ops)
          /\ history[m].data.fork # NoFork

(***************************************************************************)
(* pypi_sha applied to arbitrary index responses and release pages         *)
(***************************************************************************)
MaxFiles == 2

Zip == <<".zip">>

Filenames == {<<"pkg-2">> \o TarGz, <<"pkg-2">> \o Zip}

Digests == {[sha256 |-> <<"b">>], [sha256 |-> <<"c">>], [md5 |-> <<"m">>]}

ReleaseFiles == [filename : Filenames, digests : Digests]

FileLists == UNION {[1..n -> ReleaseFiles] : n \in 0..MaxFiles}

JsonResponses ==
    [ok : BOOLEAN,
     releases : {<<>>} \cup {(<<"2">> :> files) : files \in FileLists}
                \cup {(<<"1">> :> <<[filename |-> <<"pkg-1">> \o TarGz,
                                     digests |-> [sha256 |-> <<"a">>]]>>)}]

Pages == {[anchor |-> FALSE, clipboard |-> None],
          [anchor |-> TRUE, clipboard |-> None],
          [anchor |-> TRUE, clipboard |-> <<"s">>]}

InitSha ==
    /\ PatchIdle
    /\ MetaIdle
    /\ TickIdle
    /\ sha_request \in [response : JsonResponses, page : Pages,
                        pypi_version : {<<"2">>}, bundle_type : {TarGz}]
    /\ sha_result = NoResult
    /\ sha_pc = "ready"

\* pypi_sha(source_fn, source_version, pypi_version)
CallPypiSha ==
    /\ sha_pc = "ready"
    /\ sha_result' = pypi_sha_run(sha_request.response, sha_request.page,
                                 sha_request.pypi_version, sha_request.bundle_type)
    /\ sha_pc' = "resolved"
    /\ UNCHANGED <<sha_request, patchVars, metaVars, tickVars>>

NextSha == CallPypiSha

SpecSha == InitSha /\ [][NextSha]_vars

\* the release list of the requested version, empty when there is none
RequestedFiles ==
    IF sha_request.pypi_version \in DOMAIN sha_request.response.releases
    THEN sha_request.response.releases[sha_request.pypi_version]
    ELSE <<>>

\* positions of the files whose name ends with the requested suffix
SuffixHits ==
    {j \in DOMAIN RequestedFiles :
        EndsWith(RequestedFiles[j].filename, sha_request.bundle_type)}

\* the first file with the requested suffix carries a sha256 digest
IndexHasDigest ==
    /\ sha_request.response.ok
    /\ \E j \in SuffixHits :
          /\ \A m \in SuffixHits : j <= m
          /\ "sha256" \in DOMAIN RequestedFiles[j].digests

IndexDigest ==
    RequestedFiles[CHOOSE j \in SuffixHits : \A m \in SuffixHits : j <= m].digests["sha256"]

PageHasDigest == sha_request.page.anchor /\ sha_request.page.clipboard # None

IndexFell == sha_result.index = None /\ sha_result.scraped

\* C9: pypi_sha returns the index checksum whenever the index lookup yields
\* one; when the request is not ok, the version is absent, no filename ends
\* with the requested suffix or the digest is missing, the index tier gives
\* None and the release page is scraped; the result is None only when both
\* tiers fail.
C9_ResolverFallsBack ==
    sha_pc = "resolved" =>
        /\ IndexHasDigest =>
              sha_result.result = IndexDigest /\ ~sha_result.scraped
        /\ ~sha_request.response.ok => IndexFell
        /\ sha_request.pypi_version \notin DOMAIN sha_request.response.releases => IndexFell
        /\ SuffixHits = {} => IndexFell
        /\ (SuffixHits # {} /\ ~IndexHasDigest) => IndexFell
        /\ sha_result.result = None => (~IndexHasDigest /\ ~PageHasDigest)

\* the index lists files, none with the requested suffix, and the checksum
\* comes from the scraped page
C9_Witness ==
    /\ sha_pc = "resolved"
    /\ sha_request.response.ok
    /\ RequestedFiles # <<>>
    /\ SuffixHits = {}
    /\ sha_result.scraped
    /\ sha_result.result = <<"s">>

(***************************************************************************)
(* set_build_number called on a freshly constructed recipe model           *)
(***************************************************************************)
MaxCalls == 2

InitMeta ==
    /\ PatchIdle
    /\ ShaIdle
    /\ TickIdle
    /\ \E r \in Recipes : meta = ParseText(r)
    /\ new_number \in BuildNumbers
    /\ returns = <<>>
    /\ meta_pc = "ready"

\* meta.set_build_number(new_number); an exception leaves the instance as
\* it was and is caught by the caller
CallSetBuildNumber ==
    /\ meta_pc = "ready"
    /\ Len(returns) < MaxCalls
    /\ LET r == set_build_number(meta, new_number)
       IN  /\ meta' = r.self
           /\ returns' = Append(returns, [ret |-> r.ret, before |-> meta, after |-> r.self])
    /\ UNCHANGED <<new_number, meta_pc, patchVars, shaVars, tickVars>>

NextMeta == CallSetBuildNumber

SpecMeta == InitMeta /\ [][NextMeta]_vars

\* C7: when set_build_number(n) is called twice in succession with the same
\* n, the second call returns success and leaves the raw text unchanged.
C7_SecondCallSucceeds ==
    Len(returns) = 2 =>
        /\ returns[2].ret = "True"
        /\ returns[2].after.text = returns[2].before.text

LiteralBuildNumber(m) == "number" \notin DOMAIN m.yaml_jinja_refs

\* C8: when the build number is a literal, the pattern `number: <old>` occurs
\* more than once and new differs from old, set_build_number(new) returns
\* failure and leaves the raw text and the parsed values unchanged.
C8_AmbiguousLiteralRefused ==
    \A i \in 1..Len(returns) :
        LET before == returns[i].before
        IN  ( /\ LiteralBuildNumber(before)
              /\ Cardinality(NumberMatches(before.text, before.yaml_build_number)) > 1
              /\ Str(new_number) # before.yaml_build_number )
            => /\ returns[i].ret = "False"
               /\ returns[i].after = before

\* the build number is a literal whose pattern occurs once, or is set from
\* one template variable that is assigned once
Changeable(m) ==
    IF LiteralBuildNumber(m)
    THEN Cardinality(NumberMatches(m.text, m.yaml_build_number)) = 1
    ELSE LET build_var == m.yaml_jinja_refs["number"][2]
         IN  Cardinality({j \in DOMAIN m.text :
                            m.text[j].k = "set" /\ m.text[j].var = build_var}) = 1

\* the two texts differ in one line only
OneLineChanged(old_text, new_text) ==
    /\ DOMAIN old_text = DOMAIN new_text
    /\ Cardinality({j \in DOMAIN old_text : old_text[j] # new_text[j]}) = 1

C14_SuccessImpliesChanged ==
    \A i \in 1..Len(returns) :
        (Str(new_number) # returns[i].before.yaml_build_number
            /\ returns[i].ret = "True") =>
                /\ RenderedBuildNumber(returns[i].after.text) = Str(new_number)
                /\ returns[i].after = ParseText(returns[i].after.text)

\* no call that had a different number to set has returned success
C14_NoSuccessfulChange ==
    \A i \in 1..Len(returns) :
        Str(new_number) # returns[i].before.yaml_build_number =>
            returns[i].ret \in {"KeyError", "ValueError", "AttributeError",
                                "False", "IndexError"}

====
